---- MODULE Spec2Model ----
(***************************************************************************)
(* Dose accumulation and lineage classification of the HDR Ir-192          *)
(* brachytherapy application: the user actions registered with the Geant4  *)
(* run manager (SteppingAction / RunAction) and the Brachy* user actions   *)
(* (BrachySteppingAction / BrachyRunAction).                               *)
(*                                                                         *)
(* Lengths, energies and doses are exact integers in the units named next  *)
(* to each definition; the binary rounding of G4double is not modelled.    *)
(***************************************************************************)
EXTENDS Integers, Naturals, Sequences, FiniteSets, TLC

(***************************************************************************)
(* Part 1.  Particle lineage: the tracks of one event and the verdict of   *)
(* BrachySteppingAction::IsPrimaryContribution for each step.              *)
(***************************************************************************)

\* Bounds of the lineage model.
MaxTracks == 7
MaxSecPerStep == 2

\* G4ParticleGun(n_particle): one primary particle per event, track ID 1.
n_particle == 1

NoProcess == "none"
CreatorProcesses ==
    {NoProcess, "compt", "phot", "conv", "Rayl", "eIoni", "RadioactiveDecay"}

NoTrack == [trackID |-> 0, parentID |-> 0, depth |-> 0, creator |-> NoProcess]
NoVerdict == [depth |-> -1, parentID |-> -1, creator |-> NoProcess,
              primary |-> FALSE]

VARIABLES
    trackCount,   \* track IDs handed out in the current event
    stack,        \* waiting tracks, last in first out: [trackID, parentID, depth]
    cur,          \* the track being stepped, NoTrack when there is none
    last,         \* the classification made by the latest step, or NoVerdict
    seen          \* an earlier classification kept for comparison, or NoVerdict

lineageVars == <<trackCount, stack, cur, last, seen>>

\* The creator process G4Track::GetCreatorProcess() can report: a primary has
\* none; for a secondary the code allows for a null pointer as well.
CreatorsOf(depth) == IF depth = 0 THEN {NoProcess} ELSE CreatorProcesses

\* A mis-written classifier that treats source particles as secondary.
IsPrimaryContribution_NoGen0(parentID, creator) ==
    IF parentID = 1 THEN TRUE
    ELSE IF parentID <= 5 /\ parentID # 0
         THEN creator \in {"compt", "phot"}
         ELSE FALSE

\* A mis-written classifier whose last rule has no upper limit.
IsPrimaryContribution_NoLimit(parentID, creator) ==
    IF parentID = 0 THEN TRUE
    ELSE IF parentID = 1 THEN TRUE
    ELSE creator \in {"compt", "phot"}

\* A mis-written classifier that requires a known process for parent 1.
IsPrimaryContribution_Strict1(parentID, creator) ==
    IF parentID = 0 THEN TRUE
    ELSE IF parentID = 1
         THEN creator \in {"compt", "phot", "conv", "Rayl"}
    ELSE IF parentID <= 5 THEN creator \in {"compt", "phot"}
    ELSE FALSE

\* A mis-written classifier that, for parent 1, takes a process it does not
\* list for secondary and only a missing process for primary.
IsPrimaryContribution_Listed1(parentID, creator) ==
    IF parentID = 0 THEN TRUE
    ELSE IF parentID = 1
         THEN creator \in {NoProcess, "compt", "phot", "conv", "Rayl"}
    ELSE IF parentID <= 5 THEN creator \in {"compt", "phot"}
    ELSE FALSE

\* BrachySteppingAction::IsPrimaryContribution: the verdict for a track from
\* its parent's track ID and its creator process.
IsPrimaryContribution(parentID, creator) ==
    IF parentID = 0 THEN TRUE
    ELSE IF parentID = 1
         THEN IF creator # NoProcess
                 /\ creator \in {"compt", "phot", "conv", "Rayl"}
              THEN TRUE
              ELSE TRUE
    ELSE IF parentID <= 5
            /\ creator # NoProcess /\ creator \in {"compt", "phot"}
         THEN TRUE
    ELSE FALSE

InitLineage ==
    /\ trackCount = 0
    /\ stack = <<>>
    /\ cur = NoTrack
    /\ last = NoVerdict
    /\ seen = NoVerdict

\* PrimaryGeneratorAction::GeneratePrimaries: a new event starts with
\* n_particle primary tracks, IDs 1..n_particle, parent ID 0.
GeneratePrimaries ==
    /\ cur = NoTrack /\ stack = <<>>
    /\ trackCount' = n_particle
    /\ stack' = [k \in 1..n_particle |->
                    [trackID |-> k, parentID |-> 0, depth |-> 0]]
    /\ last' = NoVerdict
    /\ UNCHANGED <<cur, seen>>

\* The tracking manager takes the next waiting track.  The creator process of
\* a track is fixed when the track is made; nothing reads it before the track
\* is stepped, so the model draws it here.
PopTrack ==
    /\ cur = NoTrack /\ stack # <<>>
    /\ LET t == stack[Len(stack)] IN
       \E c \in CreatorsOf(t.depth) :
          cur' = [trackID |-> t.trackID, parentID |-> t.parentID,
                  depth |-> t.depth, creator |-> c]
    /\ stack' = SubSeq(stack, 1, Len(stack) - 1)
    /\ last' = NoVerdict
    /\ UNCHANGED <<trackCount, seen>>

\* One transport step of the current track: the stepping action classifies
\* it, the step leaves nSec secondaries (children of the current track, with
\* the next free track IDs) and the track stays alive or stops.
LineageStep(nSec, alive) ==
    /\ cur # NoTrack
    /\ trackCount + nSec <= MaxTracks
    /\ last' = [depth |-> cur.depth, parentID |-> cur.parentID,
                creator |-> cur.creator,
                primary |-> IsPrimaryContribution(cur.parentID, cur.creator)]
    /\ stack' = stack \o [k \in 1..nSec |->
                    [trackID |-> trackCount + k, parentID |-> cur.trackID,
                     depth |-> cur.depth + 1]]
    /\ trackCount' = trackCount + nSec
    /\ cur' = IF alive THEN cur ELSE NoTrack
    /\ UNCHANGED seen

\* Keep the latest classification to compare later ones with it.
Remember ==
    /\ last # NoVerdict
    /\ seen # last
    /\ seen' = last
    /\ UNCHANGED <<trackCount, stack, cur, last>>

(***************************************************************************)
(* Part 2.  Sparse arrays.  A std::vector of numbers that starts all zero  *)
(* is a function from the indices that hold a nonzero number to that       *)
(* number; every other index holds 0.                                      *)
(***************************************************************************)

Zeros == [k \in {} |-> 0]

At(h, k) == IF k \in DOMAIN h THEN h[k] ELSE 0

\* h[k] += v
Plus(h, k, v) ==
    LET nv == At(h, k) + v
        d  == IF nv = 0 THEN DOMAIN h \ {k} ELSE DOMAIN h \cup {k}
    IN  [j \in d |-> IF j = k THEN nv ELSE h[j]]

RECURSIVE SumOver(_, _)
SumOver(h, keys) ==
    IF keys = {} THEN 0
    ELSE LET k == CHOOSE x \in keys : TRUE
         IN  h[k] + SumOver(h, keys \ {k})

\* The sum of all elements of the array.
Total(h) == SumOver(h, DOMAIN h)

(***************************************************************************)
(* Part 3.  SteppingAction, EventAction and RunAction.  With the serial    *)
(* run manager there is one thread, 1, with the actions of                 *)
(* ActionInitialization::Build.  With the multi-threaded run manager each  *)
(* worker thread has the actions of Build and the master thread, 0, has    *)
(* the RunAction of ActionInitialization::BuildForMaster alone.            *)
(*                                                                         *)
(* Lengths are in mm (the Geant4 unit), angles in degrees, energies in     *)
(* units of 1, doses in units of 0.00001 of the printed dose.              *)
(***************************************************************************)

\* Bounds of the run.
NWorkers == 2
MaxSteps == 3
MaxEvents == 2
MaxRuns == 2

Workers == 1..NWorkers
Master == 0

\* SteppingAction::SteppingAction: fNRadialBins(100), fNAngularBins(18),
\* fMaxRadius(15.0*cm).
fNRadialBins == 100
fNAngularBins == 18
fMaxRadius == 150
\* CLHEP::pi, in degrees.
pi == 180

NoVolume == "null"
WaterPhantom == "WaterPhantom"

\* Positions of a step, as (mag(), theta()) of the pre-step point.
AtCentre  == [radius |-> 1,   theta |-> 0]     \* radial bin 0, angular bin 0
AtPole    == [radius |-> 75,  theta |-> 180]   \* radial bin 50, theta = pi
AtEdge    == [radius |-> 150, theta |-> 90]    \* radius = fMaxRadius
Outside   == [radius |-> 151, theta |-> 45]    \* radius > fMaxRadius

StepRecord(edep, pos, stepLength, volume, parentID) ==
    [edep |-> edep, pos |-> pos, stepLength |-> stepLength, density |-> 1,
     volume |-> volume, parentID |-> parentID]

\* The step records the transport engine hands to
\* SteppingAction::UserSteppingAction.
StepRecords ==
    { StepRecord(0, AtCentre, 2, WaterPhantom, 0),   \* no energy deposit
      StepRecord(8, AtCentre, 2, WaterPhantom, 0),   \* source particle
      StepRecord(8, AtCentre, 1, WaterPhantom, 0),   \* shorter step
      StepRecord(8, AtCentre, 2, WaterPhantom, 1),   \* descendant
      StepRecord(8, AtPole,   2, WaterPhantom, 1),
      StepRecord(8, AtEdge,   2, WaterPhantom, 0),
      StepRecord(8, Outside,  2, WaterPhantom, 1),
      StepRecord(8, AtCentre, 0, WaterPhantom, 0),   \* step of length 0
      [StepRecord(8, AtCentre, 2, WaterPhantom, 1)
          EXCEPT !.density = 0],                     \* material of density 0
      StepRecord(8, AtCentre, 2, "Source", 0) }      \* not in the phantom

VARIABLES
    app,         \* which user actions are registered: "tg43" or "brachy"
    mode,        \* the run manager: "serial" or "mt"
    pcRun,       \* run state of each thread
    nofEvents,   \* the events of each worker's run, G4Run::GetNumberOfEvent()
    stepsDone,   \* steps handed to a stepping action so far
    lastEdep,    \* energy deposit of the latest step record, -1 before any
    sa,          \* SteppingAction of each worker
    ev,          \* EventAction of each worker
    files,       \* the files under output/
    exportedBy,  \* the thread whose export, the latest, wrote the radial files;
                 \* 0 when there is none or the latest wrote nothing
    runOf,       \* the runs each thread has begun
    runLog       \* how EndOfRunAction of each thread's latest run went

tg43Vars == <<pcRun, nofEvents, sa, ev, files, exportedBy, runOf, runLog>>

\* The threads of the run, and those with a SteppingAction.
Threads == IF mode = "serial" THEN {1} ELSE {Master} \cup Workers
SteppingThreads == IF mode = "serial" THEN {1} ELSE Workers

\* G4UserRunAction::IsMaster
IsMaster(t) == mode = "serial" \/ t = Master

\* SteppingAction::SteppingAction: all arrays zero, no scoring volume yet.
NewSteppingAction ==
    [fScoringVolume |-> NoVolume,
     fRadialDose |-> Zeros, fRadialCounts |-> Zeros,
     fAngularDose |-> Zeros, fAngularCounts |-> Zeros,
     fRadialDosePrimary |-> Zeros, fRadialCountsPrimary |-> Zeros,
     fAngularDosePrimary |-> Zeros, fAngularCountsPrimary |-> Zeros,
     fRadialDoseSecondary |-> Zeros, fRadialCountsSecondary |-> Zeros,
     fAngularDoseSecondary |-> Zeros, fAngularCountsSecondary |-> Zeros]

NewEventAction == [fEdep |-> 0, fDose |-> 0]

\* SteppingAction::CalculateRadius
CalculateRadius(position) == position.radius

\* SteppingAction::CalculateAngle
CalculateAngle(position) ==
    IF position.radius = 0 THEN 0 ELSE position.theta

\* SteppingAction::GetRadialBin
GetRadialBin(radius) ==
    IF radius < 0 \/ radius > fMaxRadius THEN -1
    ELSE (radius * fNRadialBins) \div fMaxRadius

\* SteppingAction::GetAngularBin
GetAngularBin(angle) ==
    IF angle < 0 \/ angle > pi THEN -1
    ELSE (angle * fNAngularBins) \div pi

\* density * stepLength * 1.0*mm*mm
Mass(rec) == rec.density * rec.stepLength

\* SteppingAction::ScoreDoseInVoxel: adds the dose to the event's total.
ScoreDoseInVoxel(e, rec) ==
    IF rec.edep <= 0 THEN e
    ELSE IF Mass(rec) > 0
         THEN [e EXCEPT !.fDose = @ + (rec.edep \div Mass(rec))]
         ELSE e

\* A radial scoring that books the secondary channel under the total.
ScoreDoseRadially_NoSecondary(h, rec, primary) ==
    IF rec.edep <= 0 THEN h
    ELSE LET bin == GetRadialBin(CalculateRadius(rec.pos)) IN
         IF bin >= 0 /\ bin < fNRadialBins /\ Mass(rec) > 0
         THEN LET dose == rec.edep \div Mass(rec) IN
              IF primary = 1
              THEN [h EXCEPT !.fRadialDosePrimary = Plus(@, bin, dose),
                             !.fRadialCountsPrimary = Plus(@, bin, 1)]
              ELSE [h EXCEPT !.fRadialDose = Plus(@, bin, dose),
                             !.fRadialCounts = Plus(@, bin, 1)]
         ELSE h

\* A radial scoring that lets a step without energy through.
ScoreDoseRadially_NoEdepCheck(h, rec, primary) ==
    LET bin == GetRadialBin(CalculateRadius(rec.pos)) IN
    IF bin >= 0 /\ bin < fNRadialBins /\ Mass(rec) > 0
    THEN LET dose == rec.edep \div Mass(rec) IN
         IF primary = 1
         THEN [h EXCEPT !.fRadialDosePrimary = Plus(@, bin, dose),
                        !.fRadialCountsPrimary = Plus(@, bin, 1)]
         ELSE IF primary = 0
         THEN [h EXCEPT !.fRadialDoseSecondary = Plus(@, bin, dose),
                        !.fRadialCountsSecondary = Plus(@, bin, 1)]
         ELSE [h EXCEPT !.fRadialDose = Plus(@, bin, dose),
                        !.fRadialCounts = Plus(@, bin, 1)]
    ELSE h

\* A radial scoring that books the deposited energy as it is.
ScoreDoseRadially_RawEnergy(h, rec, primary) ==
    IF rec.edep <= 0 THEN h
    ELSE LET bin == GetRadialBin(CalculateRadius(rec.pos)) IN
         IF bin >= 0 /\ bin < fNRadialBins /\ Mass(rec) > 0
         THEN IF primary = 1
              THEN [h EXCEPT !.fRadialDosePrimary = Plus(@, bin, rec.edep),
                             !.fRadialCountsPrimary = Plus(@, bin, 1)]
              ELSE IF primary = 0
              THEN [h EXCEPT !.fRadialDoseSecondary = Plus(@, bin, rec.edep),
                             !.fRadialCountsSecondary = Plus(@, bin, 1)]
              ELSE [h EXCEPT !.fRadialDose = Plus(@, bin, rec.edep),
                             !.fRadialCounts = Plus(@, bin, 1)]
         ELSE h

\* A radial scoring that does not test the bin against the bin count.
ScoreDoseRadially_NoRangeCheck(h, rec, primary) ==
    IF rec.edep <= 0 THEN h
    ELSE LET bin == GetRadialBin(CalculateRadius(rec.pos)) IN
         IF bin >= 0 /\ Mass(rec) > 0
         THEN LET dose == rec.edep \div Mass(rec) IN
              IF primary = 1
              THEN [h EXCEPT !.fRadialDosePrimary = Plus(@, bin, dose),
                             !.fRadialCountsPrimary = Plus(@, bin, 1)]
              ELSE IF primary = 0
              THEN [h EXCEPT !.fRadialDoseSecondary = Plus(@, bin, dose),
                             !.fRadialCountsSecondary = Plus(@, bin, 1)]
              ELSE [h EXCEPT !.fRadialDose = Plus(@, bin, dose),
                             !.fRadialCounts = Plus(@, bin, 1)]
         ELSE h

\* A radial scoring that counts the step before it looks at the mass.
ScoreDoseRadially_CountsFirst(h, rec, primary) ==
    IF rec.edep <= 0 THEN h
    ELSE LET bin == GetRadialBin(CalculateRadius(rec.pos)) IN
         IF bin >= 0 /\ bin < fNRadialBins
         THEN LET dose == IF Mass(rec) > 0 THEN rec.edep \div Mass(rec) ELSE 0
              IN
              IF primary = 1
              THEN [h EXCEPT !.fRadialDosePrimary = Plus(@, bin, dose),
                             !.fRadialCountsPrimary = Plus(@, bin, 1)]
              ELSE IF primary = 0
              THEN [h EXCEPT !.fRadialDoseSecondary = Plus(@, bin, dose),
                             !.fRadialCountsSecondary = Plus(@, bin, 1)]
              ELSE [h EXCEPT !.fRadialDose = Plus(@, bin, dose),
                             !.fRadialCounts = Plus(@, bin, 1)]
         ELSE h

\* SteppingAction::ScoreDoseRadially(step, primary): primary is 1 for the
\* Primary channel, 0 for the Secondary channel, -1 for the Total channel.
ScoreDoseRadially(h, rec, primary) ==
    IF rec.edep <= 0 THEN h
    ELSE LET bin == GetRadialBin(CalculateRadius(rec.pos)) IN
         IF bin >= 0 /\ bin < fNRadialBins
         THEN IF Mass(rec) > 0
              THEN LET dose == rec.edep \div Mass(rec) IN
                   IF primary = 1
                   THEN [h EXCEPT !.fRadialDosePrimary = Plus(@, bin, dose),
                                  !.fRadialCountsPrimary = Plus(@, bin, 1)]
                   ELSE IF primary = 0
                   THEN [h EXCEPT !.fRadialDoseSecondary = Plus(@, bin, dose),
                                  !.fRadialCountsSecondary = Plus(@, bin, 1)]
                   ELSE [h EXCEPT !.fRadialDose = Plus(@, bin, dose),
                                  !.fRadialCounts = Plus(@, bin, 1)]
              ELSE h
         ELSE h

\* An angular scoring that looks at the angular bin alone.
ScoreDoseAngularly_AngleOnly(h, rec, primary) ==
    IF rec.edep <= 0 THEN h
    ELSE LET rBin == GetRadialBin(CalculateRadius(rec.pos))
             aBin == GetAngularBin(CalculateAngle(rec.pos))
         IN
         IF aBin >= 0 /\ aBin < fNAngularBins /\ Mass(rec) > 0
         THEN LET dose == rec.edep \div Mass(rec)
                  b == <<rBin, aBin>>
              IN
              IF primary = 1
              THEN [h EXCEPT !.fAngularDosePrimary = Plus(@, b, dose),
                             !.fAngularCountsPrimary = Plus(@, b, 1)]
              ELSE IF primary = 0
              THEN [h EXCEPT !.fAngularDoseSecondary = Plus(@, b, dose),
                             !.fAngularCountsSecondary = Plus(@, b, 1)]
              ELSE [h EXCEPT !.fAngularDose = Plus(@, b, dose),
                             !.fAngularCounts = Plus(@, b, 1)]
         ELSE h

\* SteppingAction::ScoreDoseAngularly(step, primary)
ScoreDoseAngularly(h, rec, primary) ==
    IF rec.edep <= 0 THEN h
    ELSE LET rBin == GetRadialBin(CalculateRadius(rec.pos))
             aBin == GetAngularBin(CalculateAngle(rec.pos))
         IN
         IF rBin >= 0 /\ rBin < fNRadialBins /\ aBin >= 0 /\ aBin < fNAngularBins
         THEN IF Mass(rec) > 0
              THEN LET dose == rec.edep \div Mass(rec)
                       b == <<rBin, aBin>>
                   IN
                   IF primary = 1
                   THEN [h EXCEPT !.fAngularDosePrimary = Plus(@, b, dose),
                                  !.fAngularCountsPrimary = Plus(@, b, 1)]
                   ELSE IF primary = 0
                   THEN [h EXCEPT !.fAngularDoseSecondary = Plus(@, b, dose),
                                  !.fAngularCountsSecondary = Plus(@, b, 1)]
                   ELSE [h EXCEPT !.fAngularDose = Plus(@, b, dose),
                                  !.fAngularCounts = Plus(@, b, 1)]
              ELSE h
         ELSE h

\* The body of SteppingAction::UserSteppingAction after the volume check:
\* the Total channels first, then the channel of the lineage (bool true and
\* false convert to the int 1 and 0).
ScoreStep(h, rec) ==
    LET t1 == ScoreDoseRadially(h, rec, -1)
        t2 == ScoreDoseAngularly(t1, rec, -1)
        p  == IF rec.parentID = 0 THEN 1 ELSE 0
        l1 == ScoreDoseRadially(t2, rec, p)
    IN  ScoreDoseAngularly(l1, rec, p)

\* A stepping action that scores the step whatever its volume.
UserSteppingAction_NoVolumeCheck(w, rec) ==
    /\ app = "tg43"
    /\ w \in SteppingThreads
    /\ pcRun[w] = "running" /\ nofEvents[w] > 0
    /\ stepsDone < MaxSteps
    /\ stepsDone' = stepsDone + 1
    /\ lastEdep' = rec.edep
    /\ ev' = [ev EXCEPT ![w] =
                 ScoreDoseInVoxel([@ EXCEPT !.fEdep = @ + rec.edep], rec)]
    /\ sa' = [sa EXCEPT ![w] =
                 ScoreStep([@ EXCEPT !.fScoringVolume = WaterPhantom], rec)]
    /\ UNCHANGED <<app, mode, pcRun, nofEvents, files, exportedBy, runOf, runLog>>

\* SteppingAction::UserSteppingAction
UserSteppingAction(w, rec) ==
    /\ app = "tg43"
    /\ w \in SteppingThreads
    /\ pcRun[w] = "running" /\ nofEvents[w] > 0
    /\ stepsDone < MaxSteps
    /\ stepsDone' = stepsDone + 1
    /\ lastEdep' = rec.edep
    /\ LET h0 == IF sa[w].fScoringVolume = NoVolume
                 THEN [sa[w] EXCEPT !.fScoringVolume = WaterPhantom]
                 ELSE sa[w]
       IN
       IF rec.volume # h0.fScoringVolume
       THEN /\ sa' = [sa EXCEPT ![w] = h0]
            /\ ev' = ev
       ELSE /\ ev' = [ev EXCEPT ![w] =
                        ScoreDoseInVoxel([@ EXCEPT !.fEdep = @ + rec.edep], rec)]
            /\ sa' = [sa EXCEPT ![w] = ScoreStep(h0, rec)]
    /\ UNCHANGED <<app, mode, pcRun, nofEvents, files, exportedBy, runOf, runLog>>

\* The worker takes the next event of the run: the event is counted in the
\* worker's run and its totals start at zero.  The steps that follow belong
\* to it until the next event or the end of the run.
BeginOfEventAction(w) ==
    /\ app = "tg43"
    /\ w \in SteppingThreads
    /\ pcRun[w] = "running"
    /\ nofEvents[w] < MaxEvents
    /\ nofEvents' = [nofEvents EXCEPT ![w] = @ + 1]
    /\ ev' = [ev EXCEPT ![w] = NewEventAction]
    /\ UNCHANGED <<app, mode, pcRun, stepsDone, lastEdep, sa, files, exportedBy,
                   runOf, runLog>>

\* std::fixed << std::setprecision(4) of a dose: from units of 0.00001 to the
\* nearest 0.0001.
Fixed4(v) == (v + 5) \div 10

\* A radial export that leaves out the bins without counts.
RadialRows_Sparse(h, primary) ==
    LET dose   == IF primary THEN h.fRadialDosePrimary
                  ELSE h.fRadialDoseSecondary
        counts == IF primary THEN h.fRadialCountsPrimary
                  ELSE h.fRadialCountsSecondary
        n      == Cardinality(DOMAIN counts)
        RECURSIVE Nth(_, _)
        Nth(k, from) ==
            LET i == CHOOSE x \in from : \A y \in from : x <= y IN
            IF k = 1 THEN i ELSE Nth(k - 1, from \ {i})
    IN  [k \in 1..n |->
            LET i == Nth(k, DOMAIN counts) IN
            << ((2 * i + 1) * fMaxRadius * 1000) \div (2 * fNRadialBins),
               Fixed4(At(dose, i)), At(counts, i) >>]

\* SteppingAction::ExportRadialDoseToFile: the data rows written after the
\* header line, row i+1 for bin i, each <<r, dose, counts>>.  r is
\* (i + 0.5) * fMaxRadius / fNRadialBins / cm printed with 4 decimals, here
\* in units of 0.0001 cm.
RadialRows(h, primary) ==
    LET dose   == IF primary THEN h.fRadialDosePrimary
                  ELSE h.fRadialDoseSecondary
        counts == IF primary THEN h.fRadialCountsPrimary
                  ELSE h.fRadialCountsSecondary
    IN  [k \in 1..fNRadialBins |->
            LET i == k - 1 IN
            << ((2 * i + 1) * fMaxRadius * 1000) \div (2 * fNRadialBins),
               Fixed4(At(dose, i)), At(counts, i) >>]

NoFile == <<>>

\* RunAction::BeginOfRunAction, at the start of each run (BeamOn).  The run
\* object is new, so the thread's event count starts at zero; the stepping
\* action and its arrays are those of the run before.  The workers start
\* their run after the master.
BeginOfRunAction(t) ==
    /\ app = "tg43"
    /\ t \in Threads
    /\ pcRun[t] # "running"
    /\ runOf[t] < MaxRuns
    /\ (mode = "mt" /\ t # Master) =>
          (pcRun[Master] = "running" /\ runOf[Master] = runOf[t] + 1)
    /\ pcRun' = [pcRun EXCEPT ![t] = "running"]
    /\ runOf' = [runOf EXCEPT ![t] = @ + 1]
    /\ runLog' = [runLog EXCEPT ![t] = "none"]
    /\ nofEvents' = IF t \in Workers THEN [nofEvents EXCEPT ![t] = 0]
                    ELSE nofEvents
    /\ UNCHANGED <<app, mode, stepsDone, lastEdep, sa, ev, files, exportedBy>>

\* run->GetNumberOfEvent(): the events of the thread's own run; the master's
\* run holds the events of all workers.
NumberOfEvent(t) ==
    IF mode = "mt" /\ t = Master THEN SumOver(nofEvents, Workers)
    ELSE nofEvents[t]

\* RunAction::EndOfRunAction.  Nothing for a run without events.  Otherwise
\* the master writes the dose distribution and TG-43 result files, and a
\* RunAction that has a SteppingAction (fSteppingAction is null on the
\* master of a multi-threaded run) has it write both radial files, each to
\* the one path built from fOutputDirectory and fRunID; without a
\* SteppingAction it prints a WARNING line on G4cout instead.  writable: the
\* files under fOutputDirectory can be opened for writing.  When they
\* cannot, SaveDoseDistribution and SaveTG43Results skip their writing and
\* ExportRadialDoseToFile writes to a stream that is not open, which stores
\* nothing; the same lines are printed and the function returns normally
\* either way.  The master ends its run after every worker.
EndOfRunAction(t, writable) ==
    /\ app = "tg43"
    /\ t \in Threads
    /\ pcRun[t] = "running"
    /\ (mode = "mt" /\ t = Master) =>
          \A w \in Workers : pcRun[w] = "ended" /\ runOf[w] = runOf[Master]
    /\ pcRun' = [pcRun EXCEPT ![t] = "ended"]
    /\ IF NumberOfEvent(t) = 0
       THEN /\ runLog' = [runLog EXCEPT ![t] = "no events"]
            /\ UNCHANGED <<files, exportedBy>>
       ELSE LET f1 == IF IsMaster(t) /\ writable
                      THEN [files EXCEPT !.other =
                               @ \cup {"dose_distribution", "tg43_results"}]
                      ELSE files
            IN  IF t \in SteppingThreads
                THEN /\ files' = IF writable
                                 THEN [f1 EXCEPT
                                         !.primary = RadialRows(sa[t], TRUE),
                                         !.secondary = RadialRows(sa[t], FALSE)]
                                 ELSE f1
                     /\ exportedBy' = IF writable THEN t ELSE 0
                     /\ runLog' = [runLog EXCEPT ![t] = "exported"]
                ELSE /\ files' = f1
                     /\ exportedBy' = exportedBy
                     /\ runLog' = [runLog EXCEPT ![t] = "warning"]
    /\ UNCHANGED <<app, mode, nofEvents, stepsDone, lastEdep, sa, ev, runOf>>

(***************************************************************************)
(* Part 4.  BrachySteppingAction and BrachyRunAction, with the part of the *)
(* G4AnalysisManager they use.                                             *)
(*                                                                         *)
(* Lengths are in units of 0.001 cm, energies in MeV.                      *)
(***************************************************************************)

\* BrachySteppingAction.hh: the radial grid and the 2-D voxel grid.
Brachy_fNRadialBins == 90
Brachy_fRadialBinWidth == 50
Brachy_fMaxRadius == 4500
fN2DBins == 180
f2DMin == -9000
f2DMax == 9000
f2DBinWidth == 100
\* The z window of the scoring mesh, +-0.125 cm.
zHalfWidth == 125

BrachyPositions ==
    { [x |-> 20,    y |-> 0, z |-> 0],      \* radius 0.02 cm
      [x |-> -9000, y |-> 0, z |-> 125],    \* x = f2DMin, z on the window edge
      [x |-> 4500,  y |-> 0, z |-> -125],   \* radius = fMaxRadius
      [x |-> 4501,  y |-> 0, z |-> 0],      \* radius = fMaxRadius + 0.001 cm
      [x |-> 9000,  y |-> 0, z |-> 0],      \* x = f2DMax
      [x |-> -9050, y |-> 0, z |-> 0],      \* x half a bin below f2DMin
      [x |-> 20,    y |-> 0, z |-> 126] }   \* outside the z window

\* Tracks as the lineage model makes them: a source particle, a child of the
\* source particle, a grandchild whose parent has track ID 6.
BrachyTracks ==
    { [parentID |-> 0, creator |-> NoProcess, depth |-> 0],
      [parentID |-> 1, creator |-> "compt", depth |-> 1],
      [parentID |-> 6, creator |-> "compt", depth |-> 2] }

\* The secondaries of the track as G4SteppingManager::GetfSecondary() gives
\* them at a step, each with its particle and the name of its creator
\* process.
NoSecondaries == <<>>
DecayGamma == [particle |-> "gamma", process |-> "RadioactiveDecay"]
OneDecayGamma == <<DecayGamma>>
MixedSecondaries ==
    << [particle |-> "e-", process |-> "RadioactiveDecay"],
       DecayGamma,
       [particle |-> "gamma", process |-> "compt"] >>

\* alive: the track status after the step is fAlive.  stepLength, density
\* and volume are those of the G4Step; BrachySteppingAction reads none of
\* them.
BrachyStepRecord(edep, pos, track, alive, secondaries, volume) ==
    [edep |-> edep, pos |-> pos, track |-> track, alive |-> alive,
     secondaries |-> secondaries, stepLength |-> 2, density |-> 1,
     volume |-> volume]

\* The step records handed to BrachySteppingAction::UserSteppingAction: a
\* deposit of 2 MeV at every position by every track, and at the first
\* position the steps without energy, in the source volume, of a track
\* that stops or goes on with or without secondaries, and a deposit of
\* 1 MeV.
BrachyStepRecords ==
    LET near   == [x |-> 20, y |-> 0, z |-> 0]
        source == [parentID |-> 0, creator |-> NoProcess, depth |-> 0]
    IN  {BrachyStepRecord(2, p, t, TRUE, NoSecondaries, WaterPhantom) :
            p \in BrachyPositions, t \in BrachyTracks}
        \cup {BrachyStepRecord(0, near, source, TRUE, NoSecondaries, WaterPhantom),
              BrachyStepRecord(0, near, source, TRUE, OneDecayGamma, WaterPhantom),
              BrachyStepRecord(0, near, source, FALSE, NoSecondaries, WaterPhantom),
              BrachyStepRecord(0, near, source, FALSE, OneDecayGamma, WaterPhantom),
              BrachyStepRecord(2, near, source, FALSE, OneDecayGamma, WaterPhantom),
              BrachyStepRecord(2, near, source, FALSE, MixedSecondaries, WaterPhantom),
              BrachyStepRecord(2, near, source, FALSE, NoSecondaries, WaterPhantom),
              BrachyStepRecord(2, near, source, TRUE, OneDecayGamma, WaterPhantom),
              BrachyStepRecord(2, near, source, TRUE, NoSecondaries, "Source"),
              BrachyStepRecord(1, near, source, TRUE, NoSecondaries, WaterPhantom)}

VARIABLES
    scoringMode,  \* the environment variable GEANT4_SCORING_MODE is set
    bPc,          \* run state of the Brachy application
    bsa,          \* BrachySteppingAction
    histoID,      \* the static histogram IDs of BrachyRunAction
    analysis,     \* G4AnalysisManager: file and histograms
    summary       \* the summary printed at the end of the run, or NoSummary

brachyVars == <<scoringMode, bPc, bsa, histoID, analysis, summary>>

NoSummary == <<>>

\* BrachySteppingAction::BrachySteppingAction: all arrays zero.
NewBrachySteppingAction ==
    [fPrimaryRadialDose |-> Zeros, fSecondaryRadialDose |-> Zeros,
     fPrimary2DMap |-> Zeros, fSecondary2DMap |-> Zeros]

\* BrachyRunAction.cc: the static IDs start at -1.
NoHistoIDs ==
    [fPrimaryDoseHistoID |-> -1, fSecondaryDoseHistoID |-> -1,
     fPrimaryDose2DHistoID |-> -1, fSecondaryDose2DHistoID |-> -1]

NewAnalysis ==
    [fileOpen |-> FALSE, h1 |-> <<>>, h2 |-> <<>>, h1Entries |-> Zeros,
     h2Fills |-> <<>>, written |-> FALSE]

\* A radial bin index that is rounded up.
BrachyRadialBin_RoundUp(pos) ==
    LET r2 == pos.x * pos.x + pos.y * pos.y IN
    CHOOSE b \in 0..(Brachy_fNRadialBins + 1) :
        /\ ((b - 1) * Brachy_fRadialBinWidth) * ((b - 1) * Brachy_fRadialBinWidth)
              < r2 \/ (b = 0 /\ r2 = 0)
        /\ r2 <= (b * Brachy_fRadialBinWidth) * (b * Brachy_fRadialBinWidth)

\* static_cast<G4int>(sqrt(x_cm*x_cm + y_cm*y_cm) / fRadialBinWidth) for a
\* radius of at most fMaxRadius.
BrachyRadialBin(pos) ==
    LET r2 == pos.x * pos.x + pos.y * pos.y IN
    CHOOSE b \in 0..Brachy_fNRadialBins :
        /\ (b * Brachy_fRadialBinWidth) * (b * Brachy_fRadialBinWidth) <= r2
        /\ r2 < ((b + 1) * Brachy_fRadialBinWidth)
                    * ((b + 1) * Brachy_fRadialBinWidth)

\* The counts of the radial bins of a BrachySteppingAction: the class
\* declares value arrays only, so no bin has a count.
BrachyRadialCounts(h, primary) == Zeros

\* A voxel block whose z window leaves out its two edges.
Accumulate2D_StrictWindow(h, rec) ==
    LET pos == rec.pos IN
    IF pos.z > -zHalfWidth /\ pos.z < zHalfWidth
       /\ pos.x >= f2DMin /\ pos.x < f2DMax /\ pos.y >= f2DMin /\ pos.y < f2DMax
    THEN LET b == <<(pos.x - f2DMin) \div f2DBinWidth,
                    (pos.y - f2DMin) \div f2DBinWidth>>
         IN
         IF IsPrimaryContribution(rec.track.parentID, rec.track.creator)
         THEN [h EXCEPT !.fPrimary2DMap = Plus(@, b, rec.edep)]
         ELSE [h EXCEPT !.fSecondary2DMap = Plus(@, b, rec.edep)]
    ELSE h

\* A voxel block that is passed over when the radius is out of the radial
\* range.
Accumulate2D_WithinRadius(h, rec) ==
    LET pos == rec.pos IN
    IF pos.z >= -zHalfWidth /\ pos.z <= zHalfWidth
       /\ pos.x * pos.x + pos.y * pos.y <= Brachy_fMaxRadius * Brachy_fMaxRadius
       /\ pos.x >= f2DMin /\ pos.x < f2DMax /\ pos.y >= f2DMin /\ pos.y < f2DMax
    THEN LET b == <<(pos.x - f2DMin) \div f2DBinWidth,
                    (pos.y - f2DMin) \div f2DBinWidth>>
         IN
         IF IsPrimaryContribution(rec.track.parentID, rec.track.creator)
         THEN [h EXCEPT !.fPrimary2DMap = Plus(@, b, rec.edep)]
         ELSE [h EXCEPT !.fSecondary2DMap = Plus(@, b, rec.edep)]
    ELSE h

\* The 2-D voxel block of BrachySteppingAction::UserSteppingAction.
Accumulate2D(h, rec) ==
    LET pos == rec.pos IN
    IF pos.z >= -zHalfWidth /\ pos.z <= zHalfWidth
    THEN IF pos.x >= f2DMin /\ pos.x < f2DMax /\ pos.y >= f2DMin /\ pos.y < f2DMax
         THEN LET x_bin == (pos.x - f2DMin) \div f2DBinWidth
                  y_bin == (pos.y - f2DMin) \div f2DBinWidth
              IN
              IF x_bin >= 0 /\ x_bin < fN2DBins /\ y_bin >= 0 /\ y_bin < fN2DBins
              THEN IF IsPrimaryContribution(rec.track.parentID, rec.track.creator)
                   THEN [h EXCEPT !.fPrimary2DMap =
                                      Plus(@, <<x_bin, y_bin>>, rec.edep)]
                   ELSE [h EXCEPT !.fSecondary2DMap =
                                      Plus(@, <<x_bin, y_bin>>, rec.edep)]
              ELSE h
         ELSE h
    ELSE h

\* The radial block of BrachySteppingAction::UserSteppingAction.
AccumulateRadial(h, rec) ==
    LET pos == rec.pos IN
    IF pos.z >= -zHalfWidth /\ pos.z <= zHalfWidth
    THEN IF pos.x * pos.x + pos.y * pos.y <= Brachy_fMaxRadius * Brachy_fMaxRadius
         THEN LET radialBin == BrachyRadialBin(pos) IN
              IF radialBin < Brachy_fNRadialBins
              THEN IF IsPrimaryContribution(rec.track.parentID, rec.track.creator)
                   THEN [h EXCEPT !.fPrimaryRadialDose =
                                      Plus(@, radialBin, rec.edep)]
                   ELSE [h EXCEPT !.fSecondaryRadialDose =
                                      Plus(@, radialBin, rec.edep)]
              ELSE h
         ELSE h
    ELSE h

\* A dose part that accumulates whether scoring mode is set or not.
BrachyDeposit_IgnoresMode(h, rec) ==
    IF rec.edep > 0
    THEN AccumulateRadial(Accumulate2D(h, rec), rec)
    ELSE h

\* The dose part of BrachySteppingAction::UserSteppingAction.
BrachyDeposit(h, rec) ==
    IF rec.edep > 0
    THEN IF ~scoringMode
         THEN AccumulateRadial(Accumulate2D(h, rec), rec)
         ELSE h
    ELSE h

\* The FillH1(0, energy) calls of the scan of the secondaries: one for each
\* gamma whose creator process is RadioactiveDecay.
SpectrumFills(secondaries) ==
    Cardinality({i \in DOMAIN secondaries :
                    /\ secondaries[i].particle = "gamma"
                    /\ secondaries[i].process = "RadioactiveDecay"})

\* G4AnalysisManager::FillH1(id, .), n times: an entry in the 1-D histogram
\* of that ID each time; without a histogram of that ID the call stores
\* nothing.  The IDs of the 1-D histograms start at 0.
FillH1(a, id, n) ==
    IF id >= 0 /\ id < Len(a.h1)
    THEN [a EXCEPT !.h1Entries = Plus(@, id, n)]
    ELSE a

\* A stepping action that returns for a track that is alive before it looks
\* at the energy deposit.
BrachyUserSteppingAction_AliveFirst(rec) ==
    /\ app = "brachy"
    /\ bPc = "running"
    /\ stepsDone < MaxSteps
    /\ stepsDone' = stepsDone + 1
    /\ lastEdep' = rec.edep
    /\ bsa' = IF rec.alive THEN bsa ELSE BrachyDeposit(bsa, rec)
    /\ analysis' = IF rec.alive THEN analysis
                   ELSE FillH1(analysis, 0, SpectrumFills(rec.secondaries))
    /\ UNCHANGED <<app, mode, scoringMode, bPc, histoID, summary>>

\* BrachySteppingAction::UserSteppingAction: the dose part, then, for a track
\* that is no longer alive, the energy spectrum of the decay gammas (H1 0).
BrachyUserSteppingAction(rec) ==
    /\ app = "brachy"
    /\ bPc = "running"
    /\ stepsDone < MaxSteps
    /\ stepsDone' = stepsDone + 1
    /\ lastEdep' = rec.edep
    /\ bsa' = BrachyDeposit(bsa, rec)
    /\ analysis' = IF rec.alive THEN analysis
                   ELSE FillH1(analysis, 0, SpectrumFills(rec.secondaries))
    /\ UNCHANGED <<app, mode, scoringMode, bPc, histoID, summary>>

\* BrachyRunAction::BeginOfRunAction: nothing in scoring mode; otherwise the
\* ROOT file is opened and the histograms are created, the 1-D ones getting
\* the IDs 0, 1, 2 and the 2-D ones the IDs 0, 1.
BrachyBeginOfRunAction ==
    /\ app = "brachy"
    /\ bPc = "idle"
    /\ bPc' = "running"
    /\ IF scoringMode
       THEN UNCHANGED <<histoID, analysis>>
       ELSE /\ analysis' =
                 [analysis EXCEPT
                    !.fileOpen = TRUE,
                    !.h1 = @ \o <<"h10", "radial_dose_primary",
                                  "radial_dose_secondary">>,
                    !.h2 = @ \o <<"dose_map_primary", "dose_map_secondary">>]
            /\ histoID' =
                 [fPrimaryDoseHistoID |-> Len(analysis.h1) + 1,
                  fSecondaryDoseHistoID |-> Len(analysis.h1) + 2,
                  fPrimaryDose2DHistoID |-> Len(analysis.h2),
                  fSecondaryDose2DHistoID |-> Len(analysis.h2) + 1]
    /\ UNCHANGED <<app, mode, scoringMode, stepsDone, lastEdep, bsa, summary>>

\* The bins of a 2-D map in the order of the two loops of
\* FillVoxelHistograms, i outside and j inside.
RECURSIVE InLoopOrder(_)
InLoopOrder(bins) ==
    IF bins = {} THEN <<>>
    ELSE LET b == CHOOSE x \in bins : \A y \in bins :
                      x[1] < y[1] \/ (x[1] = y[1] /\ x[2] <= y[2])
         IN  <<b>> \o InLoopOrder(bins \ {b})

\* A test that takes every bin to hold data.
HasData_Always(v) == TRUE

\* if (fPrimary2DMap[i][j] > 0.0), if (fSecondary2DMap[i][j] > 0.0)
HasData(v) == v > 0

\* The centre of bin i of an axis: f2DMin + (i + 0.5) * f2DBinWidth.
BinCentre(i) == f2DMin + ((2 * i + 1) * f2DBinWidth) \div 2

\* The body of the two loops of FillVoxelHistograms for bin (i, j): the
\* FillH2 call for the primary map and then the one for the secondary map,
\* each made when the bin holds data and the histogram ID is not negative.
BinFills(b, h, ids) ==
    (IF HasData(At(h.fPrimary2DMap, b)) /\ ids.fPrimaryDose2DHistoID >= 0
     THEN << [id |-> ids.fPrimaryDose2DHistoID, x |-> BinCentre(b[1]),
              y |-> BinCentre(b[2]), w |-> At(h.fPrimary2DMap, b)] >>
     ELSE <<>>)
    \o
    (IF HasData(At(h.fSecondary2DMap, b)) /\ ids.fSecondaryDose2DHistoID >= 0
     THEN << [id |-> ids.fSecondaryDose2DHistoID, x |-> BinCentre(b[1]),
              y |-> BinCentre(b[2]), w |-> At(h.fSecondary2DMap, b)] >>
     ELSE <<>>)

RECURSIVE FillsInOrder(_, _, _)
FillsInOrder(order, h, ids) ==
    IF order = <<>> THEN <<>>
    ELSE BinFills(Head(order), h, ids) \o FillsInOrder(Tail(order), h, ids)

\* BrachySteppingAction::FillVoxelHistograms: nothing in scoring mode;
\* otherwise the FillH2 calls of the pass over all bins.  A bin that neither
\* map has written to holds 0.0 in both and is passed over.
FillVoxelHistograms(a, h) ==
    IF scoringMode THEN a
    ELSE [a EXCEPT !.h2Fills =
            @ \o FillsInOrder(
                   InLoopOrder(DOMAIN h.fPrimary2DMap \cup DOMAIN h.fSecondary2DMap),
                   h, histoID)]

\* A summary that divides whatever the secondary total is.
BrachyExportRadialDoseToFile_NoGuard(h) ==
    LET totalPrimaryDose   == Total(h.fPrimaryRadialDose)
        totalSecondaryDose == Total(h.fSecondaryRadialDose)
    IN  [totalPrimaryDose |-> totalPrimaryDose,
         totalSecondaryDose |-> totalSecondaryDose,
         ratio |-> IF totalSecondaryDose # 0
                   THEN (totalPrimaryDose * 1000) \div totalSecondaryDose
                   ELSE totalPrimaryDose * 1000]

\* BrachySteppingAction::ExportRadialDoseToFile: the totals of the two radial
\* arrays and their ratio, printed.  The ratio is in units of 0.001.
BrachyExportRadialDoseToFile(h) ==
    LET totalPrimaryDose   == Total(h.fPrimaryRadialDose)
        totalSecondaryDose == Total(h.fSecondaryRadialDose)
    IN  [totalPrimaryDose |-> totalPrimaryDose,
         totalSecondaryDose |-> totalSecondaryDose,
         ratio |-> IF totalSecondaryDose > 0
                   THEN (totalPrimaryDose * 1000) \div totalSecondaryDose
                   ELSE 0]

\* An end of run that clears the arrays once they are exported.
BrachyEndOfRunAction_ClearsArrays ==
    /\ app = "brachy"
    /\ bPc = "running"
    /\ bPc' = "ended"
    /\ IF scoringMode
       THEN UNCHANGED <<analysis, summary, bsa>>
       ELSE /\ summary' = BrachyExportRadialDoseToFile(bsa)
            /\ analysis' = [FillVoxelHistograms(analysis, bsa) EXCEPT
                               !.written = TRUE, !.fileOpen = FALSE]
            /\ bsa' = NewBrachySteppingAction
    /\ UNCHANGED <<app, mode, scoringMode, stepsDone, lastEdep, histoID>>

\* BrachyRunAction::EndOfRunAction: nothing in scoring mode; otherwise the
\* summary is printed, the 2-D histograms are filled and the file is written
\* and closed.
BrachyEndOfRunAction ==
    /\ app = "brachy"
    /\ bPc = "running"
    /\ bPc' = "ended"
    /\ IF scoringMode
       THEN UNCHANGED <<analysis, summary>>
       ELSE /\ summary' = BrachyExportRadialDoseToFile(bsa)
            /\ analysis' = [FillVoxelHistograms(analysis, bsa) EXCEPT
                               !.written = TRUE, !.fileOpen = FALSE]
    /\ UNCHANGED <<app, mode, scoringMode, stepsDone, lastEdep, bsa, histoID>>

(***************************************************************************)
(* Part 5.  The specifications.                                            *)
(***************************************************************************)

vars == <<trackCount, stack, cur, last, seen,
          app, mode, stepsDone, lastEdep,
          pcRun, nofEvents, sa, ev, files, exportedBy, runOf, runLog,
          scoringMode, bPc, bsa, histoID, analysis, summary>>

InitRun ==
    /\ stepsDone = 0
    /\ lastEdep = -1
    /\ pcRun = [t \in {Master} \cup Workers |-> "idle"]
    /\ nofEvents = [w \in Workers |-> 0]
    /\ sa = [w \in Workers |-> NewSteppingAction]
    /\ ev = [w \in Workers |-> NewEventAction]
    /\ files = [primary |-> NoFile, secondary |-> NoFile, other |-> {}]
    /\ exportedBy = 0
    /\ runOf = [t \in {Master} \cup Workers |-> 0]
    /\ runLog = [t \in {Master} \cup Workers |-> "none"]
    /\ bPc = "idle"
    /\ bsa = NewBrachySteppingAction
    /\ histoID = NoHistoIDs
    /\ analysis = NewAnalysis
    /\ summary = NoSummary

\* One run of either application on the serial run manager.
Init ==
    /\ InitLineage
    /\ mode = "serial"
    /\ app \in {"tg43", "brachy"}
    /\ scoringMode \in BOOLEAN
    /\ app = "tg43" => ~scoringMode
    /\ InitRun

Next ==
    \/ \E t \in {Master} \cup Workers :
          BeginOfRunAction(t) /\ UNCHANGED <<brachyVars, lineageVars>>
    \/ \E w \in Workers :
          BeginOfEventAction(w) /\ UNCHANGED <<brachyVars, lineageVars>>
    \/ \E w \in Workers, rec \in StepRecords :
          UserSteppingAction(w, rec) /\ UNCHANGED <<brachyVars, lineageVars>>
    \/ \E t \in {Master} \cup Workers, writable \in BOOLEAN :
          EndOfRunAction(t, writable) /\ UNCHANGED <<brachyVars, lineageVars>>
    \/ BrachyBeginOfRunAction /\ UNCHANGED <<tg43Vars, lineageVars>>
    \/ \E rec \in BrachyStepRecords :
          BrachyUserSteppingAction(rec) /\ UNCHANGED <<tg43Vars, lineageVars>>
    \/ BrachyEndOfRunAction /\ UNCHANGED <<tg43Vars, lineageVars>>

Spec == Init /\ [][Next]_vars

\* One run of SteppingAction / RunAction on the multi-threaded run manager.
InitMT ==
    /\ InitLineage
    /\ mode = "mt"
    /\ app = "tg43"
    /\ scoringMode = FALSE
    /\ InitRun

\* The step records of the multi-threaded runs: the steps at the centre of
\* the phantom, without energy, by a source particle and by a descendant.
MTStepRecords ==
    {r \in StepRecords :
        r.pos = AtCentre /\ r.volume = WaterPhantom /\ Mass(r) = 2}

NextMT ==
    \/ \E t \in {Master} \cup Workers :
          BeginOfRunAction(t) /\ UNCHANGED <<brachyVars, lineageVars>>
    \/ \E w \in Workers :
          BeginOfEventAction(w) /\ UNCHANGED <<brachyVars, lineageVars>>
    \/ \E w \in Workers, rec \in MTStepRecords :
          UserSteppingAction(w, rec) /\ UNCHANGED <<brachyVars, lineageVars>>
    \/ \E t \in {Master} \cup Workers, writable \in BOOLEAN :
          EndOfRunAction(t, writable) /\ UNCHANGED <<brachyVars, lineageVars>>

SpecMT == InitMT /\ [][NextMT]_vars

\* The tracks of an event and their classification; no run is going on.
InitIdle ==
    /\ InitLineage
    /\ mode = "serial" /\ app = "brachy" /\ scoringMode = FALSE
    /\ InitRun

idleVars == <<app, mode, stepsDone, lastEdep, tg43Vars, brachyVars>>

NextIdle ==
    \/ GeneratePrimaries /\ UNCHANGED idleVars
    \/ PopTrack /\ UNCHANGED idleVars
    \/ \E nSec \in 0..MaxSecPerStep, alive \in BOOLEAN :
          LineageStep(nSec, alive) /\ UNCHANGED idleVars
    \/ Remember /\ UNCHANGED idleVars

SpecLineage == InitIdle /\ [][NextIdle]_vars

(***************************************************************************)
(* Lineage claims, checked under SpecLineage.                              *)
(***************************************************************************)

Classified == last # NoVerdict

\* C1: a step of a track of ancestry depth 0 (parent ID 0) is classified
\* Primary, and the classifier answers Primary for that track under every
\* creator-process tag, the absent one included.
C1_Depth0Primary ==
    (Classified /\ last.depth = 0) =>
        /\ last.primary
        /\ last.parentID = 0
        /\ \A c \in CreatorProcesses : IsPrimaryContribution(last.parentID, c)

C1_Witness == Classified /\ last.depth = 0 /\ last.primary

\* C2: a step of a track of ancestry depth greater than 5 is classified
\* Secondary, and the classifier answers Secondary for that track under every
\* creator-process tag, "compt" and "phot" included.
C2_DeepSecondary ==
    (Classified /\ last.depth > 5) =>
        /\ ~last.primary
        /\ \A c \in CreatorProcesses : ~IsPrimaryContribution(last.parentID, c)

C2_Witness ==
    Classified /\ last.depth > 5 /\ last.creator = "compt" /\ ~last.primary

\* C3: at ancestry depth 2 to 5 the verdict is Primary if and only if the
\* creator process is "compt" or "phot".
C3_MidDepthByProcess ==
    (Classified /\ last.depth \in 2..5) =>
        (last.primary <=> last.creator \in {"compt", "phot"})

\* C4: at ancestry depth 1 the verdict is Primary when the creator process is
\* "compt", "phot", "conv" or "Rayl", and also when there is no creator
\* process.
C4_Depth1Primary ==
    (Classified /\ last.depth = 1) =>
        /\ last.parentID = 1
        /\ last.creator \in {"compt", "phot", "conv", "Rayl", NoProcess}
              => last.primary
        /\ \A c \in {"compt", "phot", "conv", "Rayl", NoProcess} :
              IsPrimaryContribution(last.parentID, c)

C4_Witness ==
    Classified /\ last.depth = 1 /\ last.creator = NoProcess /\ last.primary

\* C5: two classified steps whose tracks have the same ancestry depth and the
\* same creator process get the same verdict, whatever their track IDs.
C5_VerdictByDepthAndProcess ==
    (Classified /\ seen # NoVerdict
        /\ last.depth = seen.depth /\ last.creator = seen.creator)
    => last.primary = seen.primary

(***************************************************************************)
(* Accumulation and export claims.                                         *)
(***************************************************************************)

\* The histogram channels of a SteppingAction: everything but the cached
\* scoring volume.
Channels(h) == [h EXCEPT !.fScoringVolume = NoVolume]

\* C6: a step whose energy deposit is less than or equal to zero leaves
\* every value and count of every channel of every projection as it was, in
\* SteppingAction and in BrachySteppingAction.  Checked under Spec.
C6_NoEnergyNoChange ==
    [][(stepsDone' = stepsDone + 1 /\ lastEdep' <= 0) =>
          /\ \A w \in Workers : Channels(sa'[w]) = Channels(sa[w])
          /\ bsa' = bsa]_vars

C6_Witness ==
    /\ lastEdep = 0 /\ stepsDone >= 2
    /\ \E w \in Workers : At(sa[w].fRadialCounts, 0) > 0

\* C7: in the radial and in the angular projection of every SteppingAction,
\* the Total count of every bin is the Primary count plus the Secondary count
\* of that bin.  Checked under Spec.
C7_TotalCountIsSum ==
    \A w \in Workers :
       /\ \A b \in DOMAIN sa[w].fRadialCounts
                   \cup DOMAIN sa[w].fRadialCountsPrimary
                   \cup DOMAIN sa[w].fRadialCountsSecondary :
             At(sa[w].fRadialCounts, b) =
                At(sa[w].fRadialCountsPrimary, b)
                + At(sa[w].fRadialCountsSecondary, b)
       /\ \A b \in DOMAIN sa[w].fAngularCounts
                   \cup DOMAIN sa[w].fAngularCountsPrimary
                   \cup DOMAIN sa[w].fAngularCountsSecondary :
             At(sa[w].fAngularCounts, b) =
                At(sa[w].fAngularCountsPrimary, b)
                + At(sa[w].fAngularCountsSecondary, b)

C7_Witness ==
    \E w \in Workers :
       /\ At(sa[w].fRadialCountsPrimary, 0) >= 1
       /\ At(sa[w].fRadialCountsSecondary, 0) >= 1
       /\ At(sa[w].fAngularCounts, <<0, 0>>) >= 2

\* C8: once the run has ended on every thread, the exported radial tables
\* hold, for every channel and bin, the sum of that bin over all workers.
\* Stated for a run whose latest export wrote its files.  Checked under
\* SpecMT.
C8_ExportIsSumOverWorkers ==
    (pcRun[Master] = "ended" /\ NumberOfEvent(Master) > 0 /\ exportedBy # 0) =>
        /\ Len(files.primary) = fNRadialBins
        /\ Len(files.secondary) = fNRadialBins
        /\ \A i \in 0..(fNRadialBins - 1) :
              /\ files.primary[i + 1][2] =
                    Fixed4(SumOver([w \in Workers |->
                                      At(sa[w].fRadialDosePrimary, i)], Workers))
              /\ files.primary[i + 1][3] =
                    SumOver([w \in Workers |->
                               At(sa[w].fRadialCountsPrimary, i)], Workers)
              /\ files.secondary[i + 1][2] =
                    Fixed4(SumOver([w \in Workers |->
                                      At(sa[w].fRadialDoseSecondary, i)], Workers))
              /\ files.secondary[i + 1][3] =
                    SumOver([w \in Workers |->
                               At(sa[w].fRadialCountsSecondary, i)], Workers)

\* C9: a radial export writes exactly fNRadialBins data rows, row i+1 for
\* bin i; the row carries the bin-centre radius (i + 0.5) * fMaxRadius /
\* fNRadialBins (in cm), and the dose (as printed with 4 decimals) and the
\* count of that bin of the selected channel; a bin without deposits is
\* written as dose 0, count 0.  Checked under Spec.
C9_RadialExportIsComplete ==
    (exportedBy # 0 /\ pcRun[exportedBy] = "ended") =>
        /\ Len(files.primary) = fNRadialBins
        /\ Len(files.secondary) = fNRadialBins
        /\ \A i \in 0..(fNRadialBins - 1) :
              LET h  == sa[exportedBy]
                  rp == files.primary[i + 1]
                  rs == files.secondary[i + 1]
              IN
              /\ 2 * fNRadialBins * rp[1] = (2 * i + 1) * fMaxRadius * 1000
              /\ rs[1] = rp[1]
              /\ rp[2] = Fixed4(At(h.fRadialDosePrimary, i))
              /\ rp[3] = At(h.fRadialCountsPrimary, i)
              /\ rs[2] = Fixed4(At(h.fRadialDoseSecondary, i))
              /\ rs[3] = At(h.fRadialCountsSecondary, i)
              /\ i \notin DOMAIN h.fRadialCountsPrimary => (rp[2] = 0 /\ rp[3] = 0)
              /\ i \notin DOMAIN h.fRadialCountsSecondary => (rs[2] = 0 /\ rs[3] = 0)

C9_Witness ==
    /\ exportedBy # 0 /\ pcRun[exportedBy] = "ended"
    /\ files.primary[1][3] >= 2 /\ files.primary[1][2] > 0
    /\ files.primary[2] = <<2250, 0, 0>>
    /\ files.secondary[51][3] = 1

\* The FillH2 calls made for the histogram with the given ID.
FillsOf(id) ==
    {k \in 1..Len(analysis.h2Fills) : analysis.h2Fills[k].id = id}

VoxelExportMatches(map, id) ==
    /\ \A b \in DOMAIN map :
          map[b] # 0 =>
             \E k \in FillsOf(id) :
                /\ 2 * analysis.h2Fills[k].x = 2 * f2DMin + (2 * b[1] + 1) * f2DBinWidth
                /\ 2 * analysis.h2Fills[k].y = 2 * f2DMin + (2 * b[2] + 1) * f2DBinWidth
                /\ analysis.h2Fills[k].w = map[b]
    /\ \A k \in FillsOf(id) :
          \E b \in DOMAIN map :
             /\ map[b] # 0
             /\ 2 * analysis.h2Fills[k].x = 2 * f2DMin + (2 * b[1] + 1) * f2DBinWidth
             /\ 2 * analysis.h2Fills[k].y = 2 * f2DMin + (2 * b[2] + 1) * f2DBinWidth
             /\ analysis.h2Fills[k].w = map[b]
    /\ Cardinality(FillsOf(id)) = Cardinality({b \in DOMAIN map : map[b] # 0})

\* C10: the voxel export makes one entry (bin-centre x, bin-centre y,
\* accumulated energy) for each voxel bin of the channel whose accumulated
\* energy is nonzero and none for a bin whose energy is zero; the number of
\* entries is the number of nonzero bins.  Checked under Spec.
C10_VoxelExportIsSparse ==
    (app = "brachy" /\ bPc = "ended") =>
        IF scoringMode
        THEN analysis.h2Fills = <<>>
             /\ bsa.fPrimary2DMap = Zeros /\ bsa.fSecondary2DMap = Zeros
        ELSE /\ VoxelExportMatches(bsa.fPrimary2DMap,
                                   histoID.fPrimaryDose2DHistoID)
             /\ VoxelExportMatches(bsa.fSecondary2DMap,
                                   histoID.fSecondaryDose2DHistoID)

C10_Witness ==
    /\ app = "brachy" /\ bPc = "ended"
    /\ Cardinality(DOMAIN bsa.fPrimary2DMap) = 2
    /\ DOMAIN bsa.fSecondary2DMap # {}
    /\ DOMAIN bsa.fSecondary2DMap # DOMAIN bsa.fPrimary2DMap
    /\ Len(analysis.h2Fills) = 3

\* C11: the summary printed at the end of a run reports totalPrimary and
\* totalSecondary as the sums over all radial bins of the Primary and the
\* Secondary channel, and ratio = totalPrimary / totalSecondary (here to
\* 0.001, rounded down) when totalSecondary > 0 and 0 otherwise.  Checked
\* under Spec.
C11_SummaryTotalsAndRatio ==
    (app = "brachy" /\ bPc = "ended" /\ ~scoringMode) =>
        /\ summary # NoSummary
        /\ summary.totalPrimaryDose =
              SumOver([i \in 0..(Brachy_fNRadialBins - 1) |->
                         At(bsa.fPrimaryRadialDose, i)],
                      0..(Brachy_fNRadialBins - 1))
        /\ summary.totalSecondaryDose =
              SumOver([i \in 0..(Brachy_fNRadialBins - 1) |->
                         At(bsa.fSecondaryRadialDose, i)],
                      0..(Brachy_fNRadialBins - 1))
        /\ IF summary.totalSecondaryDose > 0
           THEN /\ summary.ratio * summary.totalSecondaryDose
                      <= summary.totalPrimaryDose * 1000
                /\ summary.totalPrimaryDose * 1000
                      < (summary.ratio + 1) * summary.totalSecondaryDose
           ELSE summary.ratio = 0

C11_Witness ==
    /\ app = "brachy" /\ bPc = "ended" /\ summary # NoSummary
    /\ summary.totalSecondaryDose = 2
    /\ summary.totalPrimaryDose = 4
    /\ summary.ratio = 2000

\* The conditions of the claims on a position, in units of 0.001 cm.
RadiusOutOfRange(pos) ==
    pos.x * pos.x + pos.y * pos.y > Brachy_fMaxRadius * Brachy_fMaxRadius
InsideVoxelGrid(pos) ==
    /\ -9000 <= pos.x /\ pos.x < 9000
    /\ -9000 <= pos.y /\ pos.y < 9000
InsideWindow(pos) == -125 <= pos.z /\ pos.z <= 125

\* The energy held by both channels of the voxel maps.
VoxelEnergy(h) == Total(h.fPrimary2DMap) + Total(h.fSecondary2DMap)

\* C12: outside scoring mode, a step with positive energy whose radius is
\* greater than fMaxRadius changes no radial bin, and is still added to the
\* voxel maps when its x, y lie inside the voxel grid and its z inside the
\* window.  Checked under Spec.
C12_OutOfRadiusStillInVoxels ==
    [][\A rec \in {r \in BrachyStepRecords :
                      r.edep > 0 /\ RadiusOutOfRange(r.pos)} :
          (stepsDone' # stepsDone /\ ~scoringMode
             /\ BrachyUserSteppingAction(rec)) =>
             /\ bsa'.fPrimaryRadialDose = bsa.fPrimaryRadialDose
             /\ bsa'.fSecondaryRadialDose = bsa.fSecondaryRadialDose
             /\ (InsideVoxelGrid(rec.pos) /\ InsideWindow(rec.pos)) =>
                   VoxelEnergy(bsa') = VoxelEnergy(bsa) + rec.edep]_vars

C12_Witness ==
    /\ app = "brachy"
    /\ At(bsa.fPrimary2DMap, <<135, 90>>) = 2
    /\ At(bsa.fPrimary2DMap, <<0, 90>>) = 2
    /\ bsa.fPrimaryRadialDose = Zeros /\ bsa.fSecondaryRadialDose = Zeros
    /\ stepsDone = 2

\* The step records that reach the scoring of SteppingAction with a dose.
ScoredStepRecords ==
    {r \in StepRecords :
        r.edep > 0 /\ r.volume = WaterPhantom /\ Mass(r) > 0}

\* A position has a radial bin, an angular bin (radii in mm, angles in
\* degrees: 150 mm is the maximum radius, 180 degrees is pi).
HasRadialBin(pos) == 0 <= pos.radius /\ pos.radius < 150
HasAngularBin(pos) == 0 <= pos.theta /\ pos.theta < 180
AngleInRange(pos) == 0 <= pos.theta /\ pos.theta <= 180

RadialChanged(w) == sa'[w].fRadialCounts # sa[w].fRadialCounts
AngularChanged(w) == sa'[w].fAngularCounts # sa[w].fAngularCounts
BrachyRadialChanged ==
    \/ bsa'.fPrimaryRadialDose # bsa.fPrimaryRadialDose
    \/ bsa'.fSecondaryRadialDose # bsa.fSecondaryRadialDose
BrachyVoxelChanged ==
    \/ bsa'.fPrimary2DMap # bsa.fPrimary2DMap
    \/ bsa'.fSecondary2DMap # bsa.fSecondary2DMap

RadialWritten(h) ==
    DOMAIN h.fRadialDose \cup DOMAIN h.fRadialCounts
    \cup DOMAIN h.fRadialDosePrimary \cup DOMAIN h.fRadialCountsPrimary
    \cup DOMAIN h.fRadialDoseSecondary \cup DOMAIN h.fRadialCountsSecondary
AngularWritten(h) ==
    DOMAIN h.fAngularDose \cup DOMAIN h.fAngularCounts
    \cup DOMAIN h.fAngularDosePrimary \cup DOMAIN h.fAngularCountsPrimary
    \cup DOMAIN h.fAngularDoseSecondary \cup DOMAIN h.fAngularCountsSecondary

\* C14: every element a stepping action has written lies inside the declared
\* size of its array: radial index in [0, 100), angular index in [0, 18)
\* (with a radial row in [0, 100)), the radial index of BrachySteppingAction
\* in [0, 90) and both voxel indices in [0, 180); the boundary inputs
\* radius = fMaxRadius and theta = pi write nothing out of range.  Checked
\* under Spec.
C14_IndicesInRange ==
    /\ \A w \in Workers :
          /\ \A i \in RadialWritten(sa[w]) : 0 <= i /\ i < 100
          /\ \A b \in AngularWritten(sa[w]) :
                0 <= b[1] /\ b[1] < 100 /\ 0 <= b[2] /\ b[2] < 18
    /\ \A i \in DOMAIN bsa.fPrimaryRadialDose \cup DOMAIN bsa.fSecondaryRadialDose :
          0 <= i /\ i < 90
    /\ \A b \in DOMAIN bsa.fPrimary2DMap \cup DOMAIN bsa.fSecondary2DMap :
          0 <= b[1] /\ b[1] < 180 /\ 0 <= b[2] /\ b[2] < 180

\* A step at theta = pi has been scored radially alone, and a step at
\* radius = fMaxRadius or beyond has passed without a write.
C14_Witness ==
    \E w \in Workers :
       /\ stepsDone = 2
       /\ ev[w].fEdep = 16 /\ ev[w].fDose = 8
       /\ RadialWritten(sa[w]) = {50}
       /\ At(sa[w].fRadialCountsSecondary, 50) = 1
       /\ AngularWritten(sa[w]) = {}

\* floor((c + W) / (2W / B)) with W = 9 cm and B = 180, c in 0.001 cm.
VoxelIndex(c) == (c + 9000) \div 100

\* The energy of voxel bin b in both channels.
VoxelBinEnergy(h, b) == At(h.fPrimary2DMap, b) + At(h.fSecondary2DMap, b)

\* C15: outside scoring mode, a step with positive energy is added to the
\* voxel maps if and only if |z| <= 0.125 cm and both voxel indices
\* floor((x + W) / (2W / B)), floor((y + W) / (2W / B)) lie in [0, B); it is
\* then added to that bin and to no other.  Checked under Spec.
C15_VoxelBinning ==
    [][stepsDone' # stepsDone =>
        \A rec \in {r \in BrachyStepRecords : r.edep > 0} :
           (~scoringMode /\ BrachyUserSteppingAction(rec)) =>
              LET ix == VoxelIndex(rec.pos.x)
                  iy == VoxelIndex(rec.pos.y)
                  binned == /\ -125 <= rec.pos.z /\ rec.pos.z <= 125
                            /\ 0 <= ix /\ ix < 180 /\ 0 <= iy /\ iy < 180
                  touched == DOMAIN bsa.fPrimary2DMap
                             \cup DOMAIN bsa.fSecondary2DMap
                             \cup DOMAIN bsa'.fPrimary2DMap
                             \cup DOMAIN bsa'.fSecondary2DMap
              IN
              IF binned
              THEN /\ VoxelBinEnergy(bsa', <<ix, iy>>) =
                         VoxelBinEnergy(bsa, <<ix, iy>>) + rec.edep
                   /\ \A b \in touched \ {<<ix, iy>>} :
                         /\ At(bsa'.fPrimary2DMap, b) = At(bsa.fPrimary2DMap, b)
                         /\ At(bsa'.fSecondary2DMap, b) = At(bsa.fSecondary2DMap, b)
              ELSE ~BrachyVoxelChanged]_vars

C15_Witness ==
    /\ app = "brachy" /\ stepsDone = 1
    /\ At(bsa.fSecondary2DMap, <<0, 90>>) = 2
    /\ DOMAIN bsa.fPrimary2DMap = {}

\* energyDeposit / (density * stepLength * unitCrossSection)
DoseOf(rec) == rec.edep \div (rec.density * rec.stepLength * 1)

\* What the step of worker w has added to the Total radial and angular
\* arrays, and what a step has added to the arrays of BrachySteppingAction.
RadialAdded(w) == Total(sa'[w].fRadialDose) - Total(sa[w].fRadialDose)
AngularAdded(w) == Total(sa'[w].fAngularDose) - Total(sa[w].fAngularDose)
BrachyRadialAdded ==
    Total(bsa'.fPrimaryRadialDose) + Total(bsa'.fSecondaryRadialDose)
    - Total(bsa.fPrimaryRadialDose) - Total(bsa.fSecondaryRadialDose)
BrachyVoxelAdded == VoxelEnergy(bsa') - VoxelEnergy(bsa)

\* The dose-scoring part of both statements of C16: SteppingAction adds the
\* dose to its radial and angular bins.
TG43AddsDose ==
    \A w \in Workers, rec \in ScoredStepRecords :
       UserSteppingAction(w, rec) =>
          /\ RadialChanged(w) => RadialAdded(w) = DoseOf(rec)
          /\ AngularChanged(w) => AngularAdded(w) = DoseOf(rec)

Classify(depth, creator) ==
    \/ depth = 0
    \/ depth = 1
    \/ depth >= 2 /\ depth <= 5 /\ creator \in {"compt", "phot"}

\* The creator tags for which the claims give a verdict at this depth.
ClassifiedCreators(depth) ==
    IF depth = 0 THEN {NoProcess}
    ELSE IF depth = 1 THEN {NoProcess, "compt", "phot", "conv", "Rayl"}
    ELSE CreatorProcesses

\* With one source particle per event, track 1, the depth of a track whose
\* parent ID is 0 or 1.
DepthOfParent(parentID) == parentID

PrimaryRadialChanged(w) ==
    sa'[w].fRadialCountsPrimary # sa[w].fRadialCountsPrimary
SecondaryRadialChanged(w) ==
    sa'[w].fRadialCountsSecondary # sa[w].fRadialCountsSecondary
PrimaryAngularChanged(w) ==
    sa'[w].fAngularCountsPrimary # sa[w].fAngularCountsPrimary
SecondaryAngularChanged(w) ==
    sa'[w].fAngularCountsSecondary # sa[w].fAngularCountsSecondary

\* C17: in every projection that bins a deposit, the lineage channel that
\* receives it is the one of classify(ancestryDepth, creatorProcess): the
\* Primary channel when the verdict is Primary and the Secondary channel
\* otherwise, in the radial, the angular and the voxel projection (a depth-1
\* Compton product is Primary in all of them).  Checked under Spec.
C17_ChannelByClassifier ==
    [][stepsDone' # stepsDone =>
        /\ \A w \in Workers, rec \in ScoredStepRecords :
              UserSteppingAction(w, rec) =>
                 \A c \in ClassifiedCreators(DepthOfParent(rec.parentID)) :
                    LET primary == Classify(DepthOfParent(rec.parentID), c) IN
                    /\ HasRadialBin(rec.pos) =>
                          /\ PrimaryRadialChanged(w) <=> primary
                          /\ SecondaryRadialChanged(w) <=> ~primary
                    /\ (HasRadialBin(rec.pos) /\ HasAngularBin(rec.pos)) =>
                          /\ PrimaryAngularChanged(w) <=> primary
                          /\ SecondaryAngularChanged(w) <=> ~primary
        /\ \A rec \in {r \in BrachyStepRecords : r.edep > 0} :
              (~scoringMode /\ BrachyUserSteppingAction(rec)) =>
                 LET primary == Classify(rec.track.depth, rec.track.creator) IN
                 /\ BrachyVoxelChanged =>
                       /\ (bsa'.fPrimary2DMap # bsa.fPrimary2DMap) <=> primary
                       /\ (bsa'.fSecondary2DMap # bsa.fSecondary2DMap) <=> ~primary
                 /\ BrachyRadialChanged =>
                       /\ (bsa'.fPrimaryRadialDose # bsa.fPrimaryRadialDose)
                             <=> primary
                       /\ (bsa'.fSecondaryRadialDose # bsa.fSecondaryRadialDose)
                             <=> ~primary]_vars

ExportsOfRun ==
    LET latest == IF mode = "serial" THEN runOf[1] ELSE runOf[Master] IN
    {t \in Threads : runLog[t] = "exported" /\ runOf[t] = latest}

\* The threads whose EndOfRunAction found no SteppingAction registered.
EndedUnregistered ==
    {t \in Threads :
        pcRun[t] = "ended" /\ NumberOfEvent(t) > 0 /\ t \notin SteppingThreads}

\* C19: when the export step has been invoked a second time in the same run,
\* or has been invoked with no stepping action registered, an error has
\* been signalled (an abort or an error result) instead of a silent
\* completion.  Checked under SpecMT.
C19_MisuseIsSignalled ==
    (Cardinality(ExportsOfRun) >= 2 \/ EndedUnregistered # {}) =>
        \E t \in Threads : runLog[t] = "error"

\* C20: in every run the export happens at most once and only from a thread
\* that takes no more steps in that run, and once the tables are exported no
\* channel of the exported histograms changes again, in this run or in a
\* following one.  Checked under Spec.
C20_ExportOnceThenImmutable ==
    [][/\ Cardinality(ExportsOfRun) <= 1
       /\ (exportedBy # 0 /\ exportedBy' = exportedBy) =>
             Channels(sa'[exportedBy]) = Channels(sa[exportedBy])]_vars

(***************************************************************************)
(* Run start, export failure and read-only export claims.                  *)
(***************************************************************************)

\* C21: at the start of every run, a second or later run of the same
\* process included, every value and count of every channel of the thread's
\* SteppingAction is zero.  Checked under Spec.
C21_ZeroAtRunStart ==
    [][\A w \in Workers :
          runOf'[w] # runOf[w] =>
             Channels(sa'[w]) = Channels(NewSteppingAction)]_vars

\* C22: when the files of an export cannot be opened, EndOfRunAction of a
\* thread with events and a SteppingAction gets the failure reported by the
\* export and records it, instead of recording a completed export.  Checked
\* under Spec.
C22_ExportFailureIsReported ==
    [][\A t \in Threads :
          (pcRun'[t] # pcRun[t] /\ EndOfRunAction(t, FALSE)
             /\ NumberOfEvent(t) > 0 /\ t \in SteppingThreads)
          => runLog'[t] = "error"]_vars

\* C23: an export, whether its files can be opened or not, leaves every
\* value and count of every SteppingAction and of the BrachySteppingAction
\* as it was (radial tables, voxel histogram fill and summary alike); and
\* an export by the thread whose tables the files hold, made while the
\* arrays still are what the files hold, writes the same rows again.
\* Checked under Spec.
C23_ExportIsReadOnly ==
    [][/\ \A t \in Threads :
             (pcRun[t] = "running" /\ pcRun'[t] = "ended") =>
                /\ sa' = sa /\ ev' = ev
                /\ (/\ exportedBy = t /\ exportedBy' = t
                    /\ files.primary = RadialRows(sa[t], TRUE)
                    /\ files.secondary = RadialRows(sa[t], FALSE))
                   => (/\ files'.primary = files.primary
                       /\ files'.secondary = files.secondary)
       /\ (bPc = "running" /\ bPc' = "ended") =>
             /\ bsa' = bsa
             /\ ~scoringMode =>
                   /\ summary'.totalPrimaryDose = Total(bsa'.fPrimaryRadialDose)
                   /\ summary'.totalSecondaryDose =
                         Total(bsa'.fSecondaryRadialDose)]_vars

\* The radial tables have been exported in the first run and again in the
\* second, and the arrays still hold what the files show.
C23_Witness ==
    /\ app = "tg43" /\ runOf[1] = 2 /\ pcRun[1] = "ended"
    /\ exportedBy = 1 /\ runLog[1] = "exported"
    /\ files.primary[1][3] >= 1
    /\ At(sa[1].fRadialCountsPrimary, 0) = files.primary[1][3]

(***************************************************************************)
(* The single-deposit scenario.                                            *)
(***************************************************************************)

\* The record of the scenario: energy 1.0, ancestry depth 0, radius 0.02 cm.
ScenarioRecord ==
    BrachyStepRecord(1, [x |-> 20, y |-> 0, z |-> 0],
                     [parentID |-> 0, creator |-> NoProcess, depth |-> 0],
                     TRUE, 0, WaterPhantom)

\* After the scenario record the 90-bin radial grid holds a value in bin 0
\* of the Primary channel and nothing elsewhere.
ScenarioValues(h) ==
    /\ At(h.fPrimaryRadialDose, 0) > 0
    /\ \A b \in 1..(Brachy_fNRadialBins - 1) : At(h.fPrimaryRadialDose, b) = 0
    /\ \A b \in 0..(Brachy_fNRadialBins - 1) : At(h.fSecondaryRadialDose, b) = 0

OtherStatus(rec) ==
    [rec EXCEPT !.alive = ~rec.alive, !.secondaries = NoSecondaries]

\* C25: in BrachySteppingAction the emission spectrum changes only at a
\* step whose track is no longer alive; it gets one entry for each gamma
\* among the secondaries whose creator process is RadioactiveDecay and none
\* for any other secondary; the step changes nothing else of the analysis
\* histograms; and the arrays after the step are what they would be had
\* the track status been the other way round.  Checked under Spec.
C25_SpectrumIndependentOfDose ==
    [][stepsDone' # stepsDone =>
        \A rec \in BrachyStepRecords :
           BrachyUserSteppingAction(rec) =>
              LET gammas == {i \in DOMAIN rec.secondaries :
                                rec.secondaries[i] = DecayGamma}
              IN
              /\ analysis' # analysis => ~rec.alive
              /\ At(analysis'.h1Entries, 0) - At(analysis.h1Entries, 0)
                    \in {0, Cardinality(gammas)}
              /\ (~rec.alive /\ ~scoringMode) =>
                    At(analysis'.h1Entries, 0) - At(analysis.h1Entries, 0)
                       = Cardinality(gammas)
              /\ \A id \in 1..2 :
                    At(analysis'.h1Entries, id) = At(analysis.h1Entries, id)
              /\ [analysis' EXCEPT !.h1Entries = analysis.h1Entries]
                    = analysis
              /\ bsa' = BrachyDeposit(bsa, OtherStatus(rec))
              /\ rec.edep = 0 => bsa' = bsa]_vars

\* A step of a track that stops, with an energy deposit and three
\* secondaries of which one is a decay gamma, has been taken: one spectrum
\* entry, and the energy is in the arrays.
C25_Witness ==
    /\ app = "brachy" /\ ~scoringMode
    /\ stepsDone = 1 /\ lastEdep = 2
    /\ At(analysis.h1Entries, 0) = 1
    /\ At(bsa.fPrimaryRadialDose, 0) = 2

\* C26: when the analysis file of a run outside scoring mode has been
\* written, the 1-D histograms radial_dose_primary and
\* radial_dose_secondary have been filled from the radial arrays: the one
\* of a channel that holds energy has entries.  Checked under Spec.
C26_RadialHistogramsFilled ==
    (app = "brachy" /\ ~scoringMode /\ analysis.written) =>
        /\ Total(bsa.fPrimaryRadialDose) > 0 =>
              At(analysis.h1Entries, histoID.fPrimaryDoseHistoID) > 0
        /\ Total(bsa.fSecondaryRadialDose) > 0 =>
              At(analysis.h1Entries, histoID.fSecondaryDoseHistoID) > 0

(***************************************************************************)
(* The classifier at ancestry depth 1, checked under SpecLineage.          *)
(***************************************************************************)

\* C27: a step of a track of ancestry depth 1 (parent ID 1) is classified
\* Primary whatever its creator process, and the classifier answers Primary
\* for that track under every creator-process tag, the processes other than
\* "compt", "phot", "conv" and "Rayl" included.
C27_Depth1AnyProcess ==
    (Classified /\ last.depth = 1) =>
        /\ last.primary
        /\ \A c \in CreatorProcesses : IsPrimaryContribution(last.parentID, c)
        /\ \A c, d \in CreatorProcesses :
              IsPrimaryContribution(last.parentID, c)
                 = IsPrimaryContribution(last.parentID, d)

\* A track of depth 1 made by ionisation has been classified Primary.
C27_Witness ==
    Classified /\ last.depth = 1 /\ last.creator = "eIoni" /\ last.primary

\* C28: while scoring mode is set, no step changes a radial or voxel array
\* of BrachySteppingAction, BeginOfRunAction creates no histogram and opens
\* no file, FillVoxelHistograms fills nothing, and EndOfRunAction prints no
\* summary and neither writes nor closes the analysis file: arrays,
\* histogram IDs, analysis manager and summary stay as constructed.
\* Checked under Spec.
C28_ScoringModeLeavesAllAlone ==
    (app = "brachy" /\ scoringMode) =>
        /\ bsa = NewBrachySteppingAction
        /\ histoID = NoHistoIDs
        /\ analysis.h1 = <<>> /\ analysis.h2 = <<>>
        /\ ~analysis.fileOpen /\ ~analysis.written
        /\ analysis.h2Fills = <<>>
        /\ summary = NoSummary

\* A run in scoring mode has ended after a step that deposited 2 MeV.
C28_Witness ==
    /\ app = "brachy" /\ scoringMode /\ bPc = "ended"
    /\ stepsDone = 1 /\ lastEdep = 2

\* C29: whenever a step of BrachySteppingAction calls FillH1(0, .) for the
\* emission spectrum, the 1-D histogram of ID 0 exists and is the h10 that
\* BeginOfRunAction of the run has created, in scoring mode and outside it.
\* Checked under Spec.
C29_SpectrumHistogramExists ==
    [][stepsDone' # stepsDone =>
        \A rec \in {r \in BrachyStepRecords :
                       ~r.alive /\ SpectrumFills(r.secondaries) > 0} :
           BrachyUserSteppingAction(rec) =>
              (Len(analysis.h1) > 0 /\ analysis.h1[1] = "h10")]_vars

(***************************************************************************)
(* The zero-mass record.                                                   *)
(***************************************************************************)

\* The pairs of a value array and its count array of a SteppingAction.
ChannelPairs ==
    { <<"fRadialDose", "fRadialCounts">>,
      <<"fRadialDosePrimary", "fRadialCountsPrimary">>,
      <<"fRadialDoseSecondary", "fRadialCountsSecondary">>,
      <<"fAngularDose", "fAngularCounts">>,
      <<"fAngularDosePrimary", "fAngularCountsPrimary">>,
      <<"fAngularDoseSecondary", "fAngularCountsSecondary">> }

\* C30: a step with a positive energy deposit whose mass estimate is zero
\* (step length 0 or density 0) changes neither a value nor a count of any
\* radial or angular channel of SteppingAction and adds no dose to the
\* event; and at no step does a bin get a count without getting a dose.
\* Checked under Spec.
C30_ZeroMassChangesNothing ==
    [][stepsDone' # stepsDone =>
        \A w \in Workers :
           /\ \A rec \in {r \in StepRecords : r.edep > 0 /\ Mass(r) = 0} :
                 UserSteppingAction(w, rec) =>
                    /\ Channels(sa'[w]) = Channels(sa[w])
                    /\ ev'[w].fDose = ev[w].fDose
           /\ \A p \in ChannelPairs :
                 \A b \in DOMAIN sa'[w][p[2]] :
                    At(sa'[w][p[2]], b) # At(sa[w][p[2]], b) =>
                       At(sa'[w][p[1]], b) > At(sa[w][p[1]], b)]_vars

\* A step of energy 8 and mass zero has been taken in the scoring volume:
\* the event has the energy and no dose, and no bin is written.
C30_Witness ==
    \E w \in Workers :
       /\ app = "tg43" /\ stepsDone = 1 /\ lastEdep = 8
       /\ ev[w].fEdep = 8 /\ ev[w].fDose = 0
       /\ RadialWritten(sa[w]) = {} /\ AngularWritten(sa[w]) = {}

====
